---- MODULE Spec2Model ----
(***************************************************************************)
(* Library manager (lab6.py): the books and transactions tables of the     *)
(* SQLite store and the functions that read and write them.  Every         *)
(* run_query call opens a connection, executes one statement, commits and  *)
(* closes, so one run_query is one atomic step and a function that issues  *)
(* several of them (borrow_book, return_book) takes several steps.         *)
(***************************************************************************)
EXTENDS Integers, Sequences, FiniteSets, TLC

VARIABLES books, transactions, clock, pc, call, local, ret

vars == <<books, transactions, clock, pc, call, local, ret>>

(* ------------------------------ bounds --------------------------------- *)
MaxBooks == 2
MaxCopies == 2
MaxTx == 2

Sessions == {"s1", "s2"}
Titles == {<<>>, <<"D">>}
Authors == {<<"h">>}
Genres == {<<"S">>}
Years == {1965}
Copies == (-1)..MaxCopies
Users == {"alice", "bob"}
BookIds == 1..(MaxBooks + 1)
Queries == {<<>>, <<"d">>, <<"H">>}
Limits == {1, MaxTx}

(* ------------------------------ text ----------------------------------- *)
(* SQLite LIKE folds ASCII letters to one case before comparing.           *)
Lower(c) ==
  CASE c = "D" -> "d"
    [] c = "H" -> "h"
    [] c = "S" -> "s"
    [] OTHER -> c

(* Byte value of a character, for the BINARY collation of ORDER BY title.  *)
Code(c) ==
  CASE c = "D" -> 68
    [] c = "H" -> 72
    [] c = "S" -> 83
    [] c = "d" -> 100
    [] c = "h" -> 104
    [] c = "s" -> 115
    [] OTHER -> 0

(* text LIKE '%q%' *)
Like(text, q) ==
  \E k \in 0..(Len(text) - Len(q)) :
    \A j \in 1..Len(q) : Lower(text[k + j]) = Lower(q[j])

(* a <= b under memcmp order *)
TextLeq(a, b) ==
  \/ /\ Len(a) <= Len(b)
     /\ \A j \in 1..Len(a) : a[j] = b[j]
  \/ \E k \in 1..Len(a) :
       /\ k <= Len(b)
       /\ \A j \in 1..(k - 1) : a[j] = b[j]
       /\ Code(a[k]) < Code(b[k])

(* ------------------------------ store ---------------------------------- *)
NoCall == [op |-> "none"]
NoLocal == <<>>

(* Mutation: WHERE id <= ? *)
SelectBookUpTo(book_id) ==
  SelectSeq(books, LAMBDA b : b.id <= book_id)

(* SELECT ... FROM books WHERE id = ? *)
SelectBookById(book_id) ==
  SelectSeq(books, LAMBDA b : b.id = book_id)

(* Mutation: the counter moves by two *)
UpdateAvailableTwice(book_id, delta) ==
  [i \in DOMAIN books |->
     IF books[i].id = book_id
       THEN [books[i] EXCEPT !.available = @ + 2 * delta]
       ELSE books[i]]

(* UPDATE books SET available = available + delta WHERE id = ? *)
UpdateAvailable(book_id, delta) ==
  [i \in DOMAIN books |->
     IF books[i].id = book_id
       THEN [books[i] EXCEPT !.available = @ + delta]
       ELSE books[i]]

(* Mutation: available starts one short of copies *)
InsertBookShort(title, author, genre, year, copies) ==
  Append(books, [id |-> Len(books) + 1, title |-> title, author |-> author,
                 genre |-> genre, year |-> year, total_copies |-> copies,
                 available |-> copies - 1, added_on |-> clock])

(* INSERT INTO books (...) VALUES (title, author, genre, year, copies, copies, now) *)
InsertBook(title, author, genre, year, copies) ==
  Append(books, [id |-> Len(books) + 1, title |-> title, author |-> author,
                 genre |-> genre, year |-> year, total_copies |-> copies,
                 available |-> copies, added_on |-> clock])

(* Mutation: the new entry is put in front of the ledger *)
InsertTransactionFirst(book_id, action, user) ==
  <<[id |-> Len(transactions) + 1, book_id |-> book_id,
     action |-> action, user |-> user, timestamp |-> clock]>> \o transactions

(* INSERT INTO transactions (book_id, action, user, timestamp) VALUES (...) *)
InsertTransaction(book_id, action, user) ==
  Append(transactions, [id |-> Len(transactions) + 1, book_id |-> book_id,
                        action |-> action, user |-> user, timestamp |-> clock])

(* Mutation: < 0 *)
BorrowDeniedBelowZero(available) == available < 0

(* borrow_book: if book[0][0] <= 0 *)
BorrowDenied(available) == available <= 0

(* Mutation: > total *)
ReturnDeniedAbove(available, total) == available > total

(* return_book: if available >= total *)
ReturnDenied(available, total) == available >= total

(* The value a function hands back to its caller: the (flag, message) pair *)
(* of borrow_book and return_book, the rows of the three queries, None for *)
(* add_book.  ret is the latest of them, with the call that produced it.   *)
Returned(p, c, ok, msg, rows) ==
  [session |-> p, call |-> c, ok |-> ok, msg |-> msg, rows |-> rows]

NoReturn == Returned("none", NoCall, TRUE, "", <<>>)

(* Calls between their statements. *)
InFlight == {q \in Sessions : pc[q] \in {"update", "insert"}}

(* ------------------------------ Init ----------------------------------- *)
Init ==
  /\ books = <<>>
  /\ transactions = <<>>
  /\ clock = 1
  /\ pc = [p \in Sessions |-> "idle"]
  /\ call = [p \in Sessions |-> NoCall]
  /\ local = [p \in Sessions |-> NoLocal]
  /\ ret = NoReturn

(* ------------------------------ add_book ------------------------------- *)
AddBook(p, title, author, genre, year, copies) ==
  /\ pc[p] = "idle"
  /\ Len(books) < MaxBooks
  /\ books' = InsertBook(title, author, genre, year, copies)
  /\ clock' = clock + 1
  /\ ret' = Returned(p, [op |-> "add", title |-> title, copies |-> copies], TRUE, "", <<>>)
  /\ UNCHANGED <<transactions, pc, call, local>>

(* ------------------------------ list_books ----------------------------- *)
(* SELECT * FROM books ORDER BY id *)
ListBooks(p) ==
  /\ pc[p] = "idle"
  /\ ret' = Returned(p, [op |-> "list"], TRUE, "", books)
  /\ UNCHANGED <<books, transactions, clock, pc, call, local>>

(* ------------------------------ search_books --------------------------- *)
Orderings(n) ==
  {f \in [1..n -> 1..n] : \A i, j \in 1..n : f[i] = f[j] => i = j}

(* SELECT * FROM books WHERE title LIKE ? OR author LIKE ? OR genre LIKE ? *)
SearchMatches(q) ==
  SelectSeq(books, LAMBDA b : Like(b.title, q) \/ Like(b.author, q) \/ Like(b.genre, q))

(* ORDER BY title: any arrangement of the rows that is ascending by title;  *)
(* the order of rows with equal titles is left to the engine.               *)
OrderedByTitle(rows) ==
  {[i \in 1..Len(rows) |-> rows[f[i]]] : f \in
     {g \in Orderings(Len(rows)) :
        \A i \in 1..(Len(rows) - 1) : TextLeq(rows[g[i]].title, rows[g[i + 1]].title)}}

SearchBooks(p, q) ==
  /\ pc[p] = "idle"
  /\ \E rows \in OrderedByTitle(SearchMatches(q)) :
       ret' = Returned(p, [op |-> "search", q |-> q], TRUE, "", rows)
  /\ UNCHANGED <<books, transactions, clock, pc, call, local>>

(* ------------------------------ get_transactions ----------------------- *)
Null == <<"NULL">>

(* transactions t LEFT JOIN books b ON t.book_id = b.id *)
JoinTitle(t) ==
  [id |-> t.id, book_id |-> t.book_id,
   title |-> IF SelectBookById(t.book_id) = <<>> THEN Null
             ELSE SelectBookById(t.book_id)[1].title,
   action |-> t.action, user |-> t.user, timestamp |-> t.timestamp]

(* ORDER BY t.timestamp DESC *)
OrderedByTimestampDesc(rows) ==
  {[i \in 1..Len(rows) |-> rows[f[i]]] : f \in
     {g \in Orderings(Len(rows)) :
        \A i \in 1..(Len(rows) - 1) : rows[g[i]].timestamp >= rows[g[i + 1]].timestamp}}

(* LIMIT ? *)
Limit(rows, n) == SubSeq(rows, 1, IF Len(rows) < n THEN Len(rows) ELSE n)

GetTransactions(p, limit) ==
  /\ pc[p] = "idle"
  /\ \E rows \in OrderedByTimestampDesc(transactions) :
       ret' = Returned(p, [op |-> "transactions", limit |-> limit], TRUE, "",
                       Limit([i \in 1..Len(rows) |-> JoinTitle(rows[i])], limit))
  /\ UNCHANGED <<books, transactions, clock, pc, call, local>>

(* ------------------------------ borrow_book ---------------------------- *)
BorrowCall(book_id, user) == [op |-> "borrow", book_id |-> book_id, user |-> user]

(* lines 79-83: the SELECT and the two checks on its rows *)
BorrowSelect(p, book_id, user) ==
  /\ pc[p] = "idle"
  /\ LET book == SelectBookById(book_id) IN
       IF book = <<>>
         THEN /\ ret' = Returned(p, BorrowCall(book_id, user), FALSE, "Book not found", <<>>)
              /\ UNCHANGED <<pc, call, local>>
         ELSE IF BorrowDenied(book[1].available)
           THEN /\ ret' = Returned(p, BorrowCall(book_id, user), FALSE,
                                   "No copies available", <<>>)
                /\ UNCHANGED <<pc, call, local>>
           ELSE /\ Len(transactions) + Cardinality(InFlight) < MaxTx
                /\ pc' = [pc EXCEPT ![p] = "update"]
                /\ call' = [call EXCEPT ![p] = BorrowCall(book_id, user)]
                /\ local' = [local EXCEPT ![p] = <<book[1].available>>]
                /\ UNCHANGED ret
  /\ UNCHANGED <<books, transactions, clock>>

(* line 84 *)
BorrowUpdate(p) ==
  /\ pc[p] = "update"
  /\ call[p].op = "borrow"
  /\ books' = UpdateAvailable(call[p].book_id, -1)
  /\ pc' = [pc EXCEPT ![p] = "insert"]
  /\ UNCHANGED <<transactions, clock, call, local, ret>>

(* lines 85-87 *)
BorrowInsert(p) ==
  /\ pc[p] = "insert"
  /\ call[p].op = "borrow"
  /\ transactions' = InsertTransaction(call[p].book_id, "borrow", call[p].user)
  /\ clock' = clock + 1
  /\ ret' = Returned(p, call[p], TRUE, "Borrowed successfully", <<>>)
  /\ pc' = [pc EXCEPT ![p] = "idle"]
  /\ call' = [call EXCEPT ![p] = NoCall]
  /\ local' = [local EXCEPT ![p] = NoLocal]
  /\ UNCHANGED books

(* ------------------------------ return_book ---------------------------- *)
ReturnCall(book_id, user) == [op |-> "return", book_id |-> book_id, user |-> user]

(* lines 92-97 *)
ReturnSelect(p, book_id, user) ==
  /\ pc[p] = "idle"
  /\ LET row == SelectBookById(book_id) IN
       IF row = <<>>
         THEN /\ ret' = Returned(p, ReturnCall(book_id, user), FALSE, "Book not found", <<>>)
              /\ UNCHANGED <<pc, call, local>>
         ELSE IF ReturnDenied(row[1].available, row[1].total_copies)
           THEN /\ ret' = Returned(p, ReturnCall(book_id, user), FALSE,
                                   "All copies already in library", <<>>)
                /\ UNCHANGED <<pc, call, local>>
           ELSE /\ Len(transactions) + Cardinality(InFlight) < MaxTx
                /\ pc' = [pc EXCEPT ![p] = "update"]
                /\ call' = [call EXCEPT ![p] = ReturnCall(book_id, user)]
                /\ local' = [local EXCEPT ![p] =
                               <<row[1].available, row[1].total_copies>>]
                /\ UNCHANGED ret
  /\ UNCHANGED <<books, transactions, clock>>

(* line 98 *)
ReturnUpdate(p) ==
  /\ pc[p] = "update"
  /\ call[p].op = "return"
  /\ books' = UpdateAvailable(call[p].book_id, 1)
  /\ pc' = [pc EXCEPT ![p] = "insert"]
  /\ UNCHANGED <<transactions, clock, call, local, ret>>

(* lines 99-101 *)
ReturnInsert(p) ==
  /\ pc[p] = "insert"
  /\ call[p].op = "return"
  /\ transactions' = InsertTransaction(call[p].book_id, "return", call[p].user)
  /\ clock' = clock + 1
  /\ ret' = Returned(p, call[p], TRUE, "Returned successfully", <<>>)
  /\ pc' = [pc EXCEPT ![p] = "idle"]
  /\ call' = [call EXCEPT ![p] = NoCall]
  /\ local' = [local EXCEPT ![p] = NoLocal]
  /\ UNCHANGED books

(* ------------------------------ specifications ------------------------- *)
(* Sessions run their calls concurrently, one run_query at a time. *)
Next ==
  \/ \E p \in Sessions, t \in Titles, a \in Authors, g \in Genres, y \in Years, c \in Copies :
       AddBook(p, t, a, g, y, c)
  \/ \E p \in Sessions : ListBooks(p)
  \/ \E p \in Sessions, q \in Queries : SearchBooks(p, q)
  \/ \E p \in Sessions, n \in Limits : GetTransactions(p, n)
  \/ \E p \in Sessions, b \in BookIds, u \in Users : BorrowSelect(p, b, u)
  \/ \E p \in Sessions : BorrowUpdate(p)
  \/ \E p \in Sessions : BorrowInsert(p)
  \/ \E p \in Sessions, b \in BookIds, u \in Users : ReturnSelect(p, b, u)
  \/ \E p \in Sessions : ReturnUpdate(p)
  \/ \E p \in Sessions : ReturnInsert(p)

Spec == Init /\ [][Next]_vars

(* Calls executed one at a time: a call starts only when no other call is *)
(* between its statements.                                                *)
Quiet == InFlight = {}

NextSeq ==
  \/ \E p \in Sessions, t \in Titles, a \in Authors, g \in Genres, y \in Years, c \in Copies :
       Quiet /\ AddBook(p, t, a, g, y, c)
  \/ \E p \in Sessions : Quiet /\ ListBooks(p)
  \/ \E p \in Sessions, q \in Queries : Quiet /\ SearchBooks(p, q)
  \/ \E p \in Sessions, n \in Limits : Quiet /\ GetTransactions(p, n)
  \/ \E p \in Sessions, b \in BookIds, u \in Users : Quiet /\ BorrowSelect(p, b, u)
  \/ \E p \in Sessions : BorrowUpdate(p)
  \/ \E p \in Sessions : BorrowInsert(p)
  \/ \E p \in Sessions, b \in BookIds, u \in Users : Quiet /\ ReturnSelect(p, b, u)
  \/ \E p \in Sessions : ReturnUpdate(p)
  \/ \E p \in Sessions : ReturnInsert(p)

SpecSeq == Init /\ [][NextSeq]_vars

(* ------------------------------ properties ----------------------------- *)
InBounds(b) == 0 <= b.available /\ b.available <= b.total_copies

Exists(book_id) == \E i \in DOMAIN books : books[i].id = book_id

Book(book_id) == books[CHOOSE i \in DOMAIN books : books[i].id = book_id]

(* Number of ledger entries of one kind that reference one book. *)
Logged(book_id, action) ==
  Cardinality({i \in DOMAIN transactions :
                 transactions[i].book_id = book_id /\ transactions[i].action = action})

LedgerMatches ==
  \A i \in DOMAIN books :
    Logged(books[i].id, "borrow") - Logged(books[i].id, "return")
      = books[i].total_copies - books[i].available

(* Session p makes a call that returns in this very step. *)
ReturnsAtOnce(p) == pc[p] = "idle" /\ ret' # ret /\ ret'.session = p

(* Session p makes a lending call that passes its checks in this step. *)
PassesChecks(p) == pc[p] = "idle" /\ pc'[p] = "update"

(* C1: with calls executed one at a time, every book of the catalog has  *)
(* 0 <= available <= total_copies whenever no call is in progress.       *)
C1_CopiesInBounds == Quiet => \A i \in DOMAIN books : InBounds(books[i])

(* C2: under any interleaving of the statements of concurrent borrow or  *)
(* return calls, no book that was added with at least one copy ever has  *)
(* available < 0 or available > total_copies.                            *)
C2_SerializedPerBook ==
  \A i \in DOMAIN books : books[i].total_copies >= 1 => InBounds(books[i])

(* C3: with calls executed one at a time, a borrow of a book read with   *)
(* available = N > 0 passes its check, sets available to N - 1, appends   *)
(* one 'borrow' entry for (book, user) and reports success; a return of   *)
(* a book read with N < total_copies passes, sets available to N + 1,     *)
(* appends one 'return' entry and reports success; nothing else changes.  *)
C3_LendingStep ==
  \A p \in Sessions :
    /\ ReturnsAtOnce(p) /\ ret'.call.op = "borrow" /\ Exists(ret'.call.book_id)
         => Book(ret'.call.book_id).available <= 0
    /\ ReturnsAtOnce(p) /\ ret'.call.op = "return" /\ Exists(ret'.call.book_id)
         => Book(ret'.call.book_id).available >= Book(ret'.call.book_id).total_copies
    /\ PassesChecks(p)
         => /\ UNCHANGED <<books, transactions>>
            /\ local'[p][1] = Book(call'[p].book_id).available
    /\ pc[p] = "update" /\ pc'[p] = "insert"
         => /\ UNCHANGED transactions
            /\ books' = [i \in DOMAIN books |->
                 IF books[i].id = call[p].book_id
                   THEN [books[i] EXCEPT !.available =
                           IF call[p].op = "borrow" THEN local[p][1] - 1
                                                    ELSE local[p][1] + 1]
                   ELSE books[i]]
    /\ pc[p] = "insert" /\ pc'[p] = "idle"
         => /\ UNCHANGED books
            /\ Len(transactions') = Len(transactions) + 1
            /\ SubSeq(transactions', 1, Len(transactions)) = transactions
            /\ transactions'[Len(transactions')].book_id = call[p].book_id
            /\ transactions'[Len(transactions')].action = call[p].op
            /\ transactions'[Len(transactions')].user = call[p].user
            /\ ret'.session = p /\ ret'.call = call[p] /\ ret'.ok

C3_ExactlyOne == [][C3_LendingStep]_vars

C3_Witness ==
  /\ ret.ok /\ ret.call.op = "return"
  /\ \E i \in DOMAIN transactions :
       /\ i > 1
       /\ transactions[i].action = "return"
       /\ transactions[i - 1].action = "borrow"

(* C4: a borrow of an existing book whose available is 0 or less returns  *)
(* (False, "No copies available") and changes no book and no ledger       *)
(* entry; no borrow passes its check on such a book.                      *)
C4_DeniedBorrowStep ==
  \A p \in Sessions :
    /\ ReturnsAtOnce(p) /\ ret'.call.op = "borrow" /\ Exists(ret'.call.book_id)
         /\ Book(ret'.call.book_id).available <= 0
         => /\ ~ret'.ok /\ ret'.msg = "No copies available"
            /\ UNCHANGED <<books, transactions>>
    /\ PassesChecks(p) /\ call'[p].op = "borrow"
         => Book(call'[p].book_id).available > 0

C4_Unavailable == [][C4_DeniedBorrowStep]_vars

C4_Witness ==
  /\ ret.msg = "No copies available"
  /\ Exists(ret.call.book_id)
  /\ Book(ret.call.book_id).total_copies >= 1
  /\ Book(ret.call.book_id).available = 0
  /\ Logged(ret.call.book_id, "borrow") >= 1

(* C5: a return of an existing book whose available >= total_copies       *)
(* returns (False, "All copies already in library") and changes no book   *)
(* and no ledger entry; no return passes its check on such a book.        *)
C5_DeniedReturnStep ==
  \A p \in Sessions :
    /\ ReturnsAtOnce(p) /\ ret'.call.op = "return" /\ Exists(ret'.call.book_id)
         /\ Book(ret'.call.book_id).available >= Book(ret'.call.book_id).total_copies
         => /\ ~ret'.ok /\ ret'.msg = "All copies already in library"
            /\ UNCHANGED <<books, transactions>>
    /\ PassesChecks(p) /\ call'[p].op = "return"
         => Book(call'[p].book_id).available < Book(call'[p].book_id).total_copies

C5_AlreadyFull == [][C5_DeniedReturnStep]_vars

C5_Witness ==
  /\ ret.msg = "All copies already in library"
  /\ Exists(ret.call.book_id)
  /\ Book(ret.call.book_id).total_copies >= 1
  /\ Book(ret.call.book_id).available = Book(ret.call.book_id).total_copies

(* C6: every book of the catalog has a non-empty title and                *)
(* total_copies >= 1, add_book having refused any other.                  *)
C6_ValidatedBooks ==
  \A i \in DOMAIN books : books[i].title # <<>> /\ books[i].total_copies >= 1

(* C7: a borrow or a return whose book id resolves to no book returns     *)
(* (False, "Book not found") and changes no book and no ledger entry; no  *)
(* lending call passes its checks with such an id.                        *)
C7_NotFoundStep ==
  \A p \in Sessions :
    /\ ReturnsAtOnce(p) /\ ret'.call.op \in {"borrow", "return"}
         /\ ~Exists(ret'.call.book_id)
         => /\ ~ret'.ok /\ ret'.msg = "Book not found"
            /\ UNCHANGED <<books, transactions>>
    /\ PassesChecks(p) => Exists(call'[p].book_id)

C7_NotFound == [][C7_NotFoundStep]_vars

C7_Witness ==
  /\ ret.msg = "Book not found"
  /\ ret.call.op = "return"
  /\ books # <<>>
  /\ transactions # <<>>

(* C8: the ledger only grows at its end: every step keeps the earlier     *)
(* entries as they were, every entry is tagged 'borrow' or 'return', and  *)
(* the ledger gains one entry in exactly the steps in which a borrow or   *)
(* return reports success, and none in any other step.                    *)
C8_LedgerStep ==
  /\ Len(transactions') >= Len(transactions)
  /\ SubSeq(transactions', 1, Len(transactions)) = transactions
  /\ \A i \in DOMAIN transactions' : transactions'[i].action \in {"borrow", "return"}
  /\ Len(transactions') - Len(transactions) =
       IF \E p \in Sessions :
            /\ pc[p] = "insert" /\ pc'[p] = "idle"
            /\ ret'.session = p /\ ret'.ok /\ ret'.call.op \in {"borrow", "return"}
         THEN 1 ELSE 0

C8_AppendOnly == [][C8_LedgerStep]_vars

C8_Witness ==
  /\ Len(transactions) >= 2
  /\ ~ret.ok
  /\ ret.call.op = "borrow"
  /\ transactions[1].action = "borrow"
  /\ transactions[2].action = "return"

(* C9: in every state, in the middle of a call included, each book's      *)
(* 'borrow' entries minus its 'return' entries equal total_copies minus   *)
(* available: the counter never changes without its ledger entry.         *)
C9_AtomicLending == LedgerMatches

(* C10: with calls executed one at a time, whenever no call is in         *)
(* progress each book's 'borrow' entries minus its 'return' entries equal *)
(* total_copies - available; a book just added has available =            *)
(* total_copies = copies and no entries; total_copies never changes.      *)
C10_LedgerStep ==
  /\ Quiet' => LedgerMatches'
  /\ \A i \in DOMAIN books :
       /\ i \in DOMAIN books'
       /\ books'[i].id = books[i].id
       /\ books'[i].total_copies = books[i].total_copies
  /\ \A i \in DOMAIN books' \ DOMAIN books :
       /\ books'[i].available = ret'.call.copies
       /\ books'[i].total_copies = ret'.call.copies
       /\ \A j \in DOMAIN transactions' : transactions'[j].book_id # books'[i].id

C10_LedgerConsistent == [][C10_LedgerStep]_vars

C10_Witness ==
  /\ Quiet
  /\ \E i \in DOMAIN books :
       /\ books[i].total_copies - books[i].available = 1
       /\ Logged(books[i].id, "borrow") = 1
       /\ Logged(books[i].id, "return") = 0
  /\ Len(books) = 2

====
